---- MODULE Spec2Model ----
(***************************************************************************)
(* Model of the study tracker's accounting engine, api/index.py: the three *)
(* tables (UserConfig, StudyLog, RewardItem), process startup and the six  *)
(* request handlers.                                                       *)
(*                                                                         *)
(* Number representation.  The program keeps energy, rates and multipliers *)
(* as floats; the model keeps them as exact integers in fixed units:       *)
(*   - a multiplier is held in hundredths        (1.5  -> 150),            *)
(*   - base_reward_rate in energy per hour       (10.0 -> 10),             *)
(*   - daily_goal_hours in hours                 (4.0  -> 4),              *)
(*   - an energy amount in 1/EnergyUnit energy   (30.0 -> 30 * 6000),      *)
(* so that (minutes / 60) * rate * multiplier is the integer               *)
(* minutes * rate * multiplier_hundredths, with no division.               *)
(*                                                                         *)
(* Dates.  A calendar day is a day number; the ISO string of day n, which  *)
(* is what the tables store, is the record [iso |-> n].                    *)
(***************************************************************************)
EXTENDS Integers, Sequences, FiniteSets, TLC

\* ---------------------------------------------------------------- bounds
MaxDay == 3
MaxLogs == 2
MaxRewards == 2
MaxStreak == 12
MaxRequests == 1

\* ------------------------------------------------------ program constants
EnergyUnit == 6000
FreezeCardName == "streak_freeze_card"
FreezeCardDescription == "consumed automatically to protect the streak"
FreezeCardCost == 30 * EnergyUnit
DefaultGoalHours == 4
DefaultRewardRate == 10
DefaultPenalty == 50 * EnergyUnit
DefaultMaxStreakBonus == 150
MultiplierCap == 150

\* ------------------------------------------------------- request inputs
Durations == {-60, 240}
Notes == {"note"}
RewardNames == {FreezeCardName, "coffee"}
RewardCosts == {10 * EnergyUnit}
RewardIds == 1..(MaxRewards + 1)
Workers == {1, 2}
StoredBonuses == {100, 150, 200}

VARIABLES
  today,       \* the clock: the day date.today() returns
  importDay,   \* the day the running process imported the module
  userconfig,  \* table UserConfig, rows in id order
  studylog,    \* table StudyLog, rows in id order
  rewarditem,  \* table RewardItem, rows in id order
  resp,        \* the response of the last request handled
  session      \* per worker: the request it is serving between its read of
               \* the tables and its commit (used by the interleaved handlers)

vars == <<today, importDay, userconfig, studylog, rewarditem, resp, session>>

\* a worker that is serving no request and has served n so far
Idle(n) == [pc |-> "idle", served |-> n]

\* ---------------------------------------------------------------- dates
\* str(d) for a date d
date_str(d) == [iso |-> d]

\* datetime.strptime(s, "%Y-%m-%d").date()
strptime_date(s) == s.iso

\* ------------------------------------------------------------- helpers
RECURSIVE sum_minutes(_)
sum_minutes(logs) ==
  IF logs = <<>> THEN 0
  ELSE Head(logs).duration_minutes + sum_minutes(Tail(logs))

\* round(x / q) to the nearest integer, ties to even (Python's round)
round_half_even(x, q) ==
  LET f == x \div q
      r == x % q
  IN  IF 2 * r < q THEN f
      ELSE IF 2 * r > q THEN f + 1
      ELSE IF f % 2 = 0 THEN f ELSE f + 1

\* variant: every log dated on or after the given day is selected
logs_dated_since(s) == SelectSeq(studylog, LAMBDA l : l.date.iso >= s.iso)

\* select(StudyLog).where(StudyLog.date == s)
logs_dated(s) == SelectSeq(studylog, LAMBDA l : l.date = s)

\* --------------------------------------------------------------- models
\* UserConfig(): every field takes its default; last_check_date's default
\* was computed when the class was defined, i.e. at import.
UserConfig(id, import_day) ==
  [ id |-> id,
    energy_balance |-> 0,
    daily_goal_hours |-> DefaultGoalHours,
    base_reward_rate |-> DefaultRewardRate,
    penalty_amount |-> DefaultPenalty,
    last_check_date |-> date_str(import_day),
    current_streak |-> 0,
    streak_freezes |-> 0,
    max_streak_bonus |-> DefaultMaxStreakBonus ]

\* StudyLog(duration_minutes=..., note=..., earned_energy=...): date is not
\* passed, so it takes the default computed when the class was defined.
StudyLog(id, duration_minutes, note, earned_energy) ==
  [ id |-> id,
    date |-> date_str(importDay),
    duration_minutes |-> duration_minutes,
    note |-> note,
    earned_energy |-> earned_energy ]

RewardItem(id, name, cost, description, is_system_item) ==
  [ id |-> id, name |-> name, cost |-> cost,
    description |-> description, is_system_item |-> is_system_item ]

\* session.exec(select(UserConfig)).first()
config == userconfig[1]

\* --------------------------------------------------------- multiplier
\* variant: the cap is read from the stored max_streak_bonus
calculate_multiplier_stored_cap(streak) ==
  IF 100 + streak * 5 <= config.max_streak_bonus
  THEN 100 + streak * 5
  ELSE config.max_streak_bonus

calculate_multiplier(streak) ==
  IF 100 + streak * 5 <= MultiplierCap THEN 100 + streak * 5 ELSE MultiplierCap

\* ------------------------------------------------------------ startup
\* variant: every start adds a configuration row
create_db_and_tables_always_adds ==
  /\ importDay' = today
  /\ userconfig' = Append(userconfig, UserConfig(Len(userconfig) + 1, today))
  /\ rewarditem' = IF \E i \in DOMAIN rewarditem : rewarditem[i].name = FreezeCardName
                   THEN rewarditem
                   ELSE Append(rewarditem,
                          RewardItem(Len(rewarditem) + 1, FreezeCardName,
                                     FreezeCardCost, FreezeCardDescription, TRUE))
  /\ resp' = [op |-> "startup"]
  /\ UNCHANGED <<session, today, studylog>>

\* A process start: the module is imported (the Field defaults are
\* computed) and lifespan runs create_db_and_tables.
create_db_and_tables ==
  /\ importDay' = today
  /\ userconfig' = IF userconfig = <<>>
                   THEN <<UserConfig(1, today)>>
                   ELSE userconfig
  /\ rewarditem' = IF \E i \in DOMAIN rewarditem : rewarditem[i].name = FreezeCardName
                   THEN rewarditem
                   ELSE Append(rewarditem,
                          RewardItem(Len(rewarditem) + 1, FreezeCardName,
                                     FreezeCardCost, FreezeCardDescription, TRUE))
  /\ resp' = [op |-> "startup"]
  /\ UNCHANGED <<session, today, studylog>>

\* -------------------------------------------------------------- clock
Tick ==
  /\ today < MaxDay
  /\ today' = today + 1
  /\ UNCHANGED <<session, importDay, userconfig, studylog, rewarditem, resp>>

\* ----------------------------------------------------------- handlers
get_status ==
  LET logs == logs_dated(date_str(today))
      total_today_minutes == sum_minutes(logs)
      multiplier == calculate_multiplier(config.current_streak)
  IN  /\ resp' = [ op |-> "get_status",
                   energy |-> round_half_even(config.energy_balance * 10, EnergyUnit),
                   today_hours |-> round_half_even(total_today_minutes * 100, 60),
                   goal |-> config.daily_goal_hours,
                   streak |-> config.current_streak,
                   multiplier |-> multiplier,
                   freezes |-> config.streak_freezes,
                   logs |-> logs ]
      /\ UNCHANGED <<session, today, importDay, userconfig, studylog, rewarditem>>

\* variant: the streak bonus is not applied to the earned amount
earned_energy_no_bonus(duration_minutes, cfg, multiplier) ==
  duration_minutes * cfg.base_reward_rate * 100

\* final_earned = (duration_minutes / 60.0) * base_reward_rate * multiplier
earned_energy(duration_minutes, cfg, multiplier) ==
  LET base_earned == duration_minutes * cfg.base_reward_rate
  IN  base_earned * multiplier

\* variant: one row per date, a later session is merged into the day's row
log_study_merging(duration_minutes, note) ==
  LET multiplier == calculate_multiplier(config.current_streak)
      final_earned == earned_energy(duration_minutes, config, multiplier)
      new_log == StudyLog(Len(studylog) + 1, duration_minutes, note, final_earned)
      same_day == {i \in DOMAIN studylog : studylog[i].date = new_log.date}
  IN  /\ Len(studylog) < MaxLogs
      /\ userconfig' = [userconfig EXCEPT ![1].energy_balance = @ + final_earned]
      /\ studylog' =
           IF same_day = {}
           THEN Append(studylog, new_log)
           ELSE LET i == CHOOSE j \in same_day : TRUE
                IN  [studylog EXCEPT
                       ![i].duration_minutes = @ + duration_minutes,
                       ![i].earned_energy = @ + final_earned]
      /\ resp' = [ op |-> "log_study", message |-> "Logged!",
                   total_earned |-> round_half_even(final_earned * 10, EnergyUnit),
                   bonus_multiplier |-> multiplier ]
      /\ UNCHANGED <<session, today, importDay, rewarditem>>

log_study(duration_minutes, note) ==
  LET multiplier == calculate_multiplier(config.current_streak)
      final_earned == earned_energy(duration_minutes, config, multiplier)
      new_log == StudyLog(Len(studylog) + 1, duration_minutes, note, final_earned)
  IN  /\ Len(studylog) < MaxLogs
      /\ userconfig' = [userconfig EXCEPT ![1].energy_balance = @ + final_earned]
      /\ studylog' = Append(studylog, new_log)
      /\ resp' = [ op |-> "log_study", message |-> "Logged!",
                   total_earned |-> round_half_even(final_earned * 10, EnergyUnit),
                   bonus_multiplier |-> multiplier ]
      /\ UNCHANGED <<session, today, importDay, rewarditem>>

\* variant: the early return compares with > instead of >=
already_checked_strict(last_check, day) == last_check > day

\* if last_check >= today: return
already_checked(last_check, day) == last_check >= day

\* variant: the goal must be exceeded, not only reached
goal_met_strict(yesterday_minutes, cfg) ==
  yesterday_minutes > cfg.daily_goal_hours * 60

\* yesterday_hours >= config.daily_goal_hours, with hours = minutes / 60.0
goal_met(yesterday_minutes, cfg) ==
  yesterday_minutes >= cfg.daily_goal_hours * 60

\* variant: the penalty stops at a zero balance
goal_step_clamped(cfg, yesterday_minutes) ==
  IF goal_met(yesterday_minutes, cfg)
  THEN [cfg EXCEPT !.current_streak = @ + 1]
  ELSE IF cfg.streak_freezes > 0
       THEN [cfg EXCEPT !.streak_freezes = @ - 1]
       ELSE [cfg EXCEPT !.current_streak = 0,
                        !.energy_balance =
                           IF @ - cfg.penalty_amount < 0 THEN 0
                           ELSE @ - cfg.penalty_amount]

\* variant: a consumed freeze also counts the day towards the streak
goal_step_freeze_counts(cfg, yesterday_minutes) ==
  IF goal_met(yesterday_minutes, cfg)
  THEN [cfg EXCEPT !.current_streak = @ + 1]
  ELSE IF cfg.streak_freezes > 0
       THEN [cfg EXCEPT !.streak_freezes = @ - 1, !.current_streak = @ + 1]
       ELSE [cfg EXCEPT !.current_streak = 0,
                        !.energy_balance = @ - cfg.penalty_amount]

\* variant: a missed goal takes a freeze without asking whether one is held
goal_step_unguarded(cfg, yesterday_minutes) ==
  IF goal_met(yesterday_minutes, cfg)
  THEN [cfg EXCEPT !.current_streak = @ + 1]
  ELSE [cfg EXCEPT !.streak_freezes = @ - 1]

\* the goal / freeze / penalty step
goal_step(cfg, yesterday_minutes) ==
  IF goal_met(yesterday_minutes, cfg)
  THEN [cfg EXCEPT !.current_streak = @ + 1]
  ELSE IF cfg.streak_freezes > 0
       THEN [cfg EXCEPT !.streak_freezes = @ - 1]
       ELSE [cfg EXCEPT !.current_streak = 0,
                        !.energy_balance = @ - cfg.penalty_amount]

\* variant: the override needs a gap of more than two days
gap_step_late(cfg, gap_days) ==
  IF gap_days > 2 THEN [cfg EXCEPT !.current_streak = 0] ELSE cfg

\* if (today - last_check).days > 1: config.current_streak = 0
gap_step(cfg, gap_days) ==
  IF gap_days > 1 THEN [cfg EXCEPT !.current_streak = 0] ELSE cfg

\* variant: the check is recorded under yesterday's date
daily_check_dated_yesterday ==
  LET last_check == strptime_date(config.last_check_date)
      yesterday == today - 1
      yesterday_str == date_str(yesterday)
      logs == logs_dated(yesterday_str)
      yesterday_minutes == sum_minutes(logs)
      c1 == goal_step(config, yesterday_minutes)
      c2 == gap_step(c1, today - last_check)
      c3 == [c2 EXCEPT !.last_check_date = yesterday_str]
  IN  IF already_checked(last_check, today)
      THEN /\ resp' = [op |-> "daily_check", message |-> "Checked"]
           /\ UNCHANGED <<session, today, importDay, userconfig, studylog, rewarditem>>
      ELSE /\ userconfig' = [userconfig EXCEPT ![1] = c3]
           /\ resp' = [op |-> "daily_check", message |-> "Daily check done"]
           /\ UNCHANGED <<session, today, importDay, studylog, rewarditem>>

daily_check ==
  LET last_check == strptime_date(config.last_check_date)
      yesterday == today - 1
      yesterday_str == date_str(yesterday)
      logs == logs_dated(yesterday_str)
      yesterday_minutes == sum_minutes(logs)
      c1 == goal_step(config, yesterday_minutes)
      c2 == gap_step(c1, today - last_check)
      c3 == [c2 EXCEPT !.last_check_date = date_str(today)]
  IN  IF already_checked(last_check, today)
      THEN /\ resp' = [op |-> "daily_check", message |-> "Checked"]
           /\ UNCHANGED <<session, today, importDay, userconfig, studylog, rewarditem>>
      ELSE /\ userconfig' = [userconfig EXCEPT ![1] = c3]
           /\ resp' = [op |-> "daily_check", message |-> "Daily check done"]
           /\ UNCHANGED <<session, today, importDay, studylog, rewarditem>>

get_rewards ==
  /\ resp' = [op |-> "get_rewards", items |-> rewarditem]
  /\ UNCHANGED <<session, today, importDay, userconfig, studylog, rewarditem>>

add_reward(name, cost, description) ==
  /\ Len(rewarditem) < MaxRewards
  /\ rewarditem' = Append(rewarditem,
                     RewardItem(Len(rewarditem) + 1, name, cost, description, FALSE))
  /\ resp' = [op |-> "add_reward", message |-> "Added"]
  /\ UNCHANGED <<session, today, importDay, userconfig, studylog>>

\* variant: only a missing item is refused
redeem_denied_missing_only(cfg, items, reward_id) ==
  reward_id \notin DOMAIN items

\* variant: a balance equal to the cost is refused
redeem_denied_strict(cfg, items, reward_id) ==
  \/ reward_id \notin DOMAIN items
  \/ cfg.energy_balance <= items[reward_id].cost

\* if not item or config.energy_balance < item.cost: raise HTTPException
redeem_denied(cfg, items, reward_id) ==
  \/ reward_id \notin DOMAIN items
  \/ cfg.energy_balance < items[reward_id].cost

\* variant: only the seeded system item grants a freeze
redeem_effect_system_only(cfg, item) ==
  [cfg EXCEPT !.energy_balance = @ - item.cost,
              !.streak_freezes =
                 IF item.name = FreezeCardName /\ item.is_system_item
                 THEN @ + 1 ELSE @]

\* the balance and freeze update of a successful redemption
redeem_effect(cfg, item) ==
  [cfg EXCEPT !.energy_balance = @ - item.cost,
              !.streak_freezes = IF item.name = FreezeCardName THEN @ + 1 ELSE @]

redeem_reward(reward_id) ==
  LET item == rewarditem[reward_id]   \* session.get(RewardItem, reward_id)
  IN  IF redeem_denied(config, rewarditem, reward_id)
      THEN /\ resp' = [op |-> "redeem_reward", reward_id |-> reward_id,
                       status |-> 400, detail |-> "Error"]
           /\ UNCHANGED <<session, today, importDay, userconfig, studylog, rewarditem>>
      ELSE /\ userconfig' = [userconfig EXCEPT ![1] = redeem_effect(config, item)]
           /\ resp' = [op |-> "redeem_reward", reward_id |-> reward_id,
                       status |-> 200, message |-> "Redeemed"]
           /\ UNCHANGED <<session, today, importDay, studylog, rewarditem>>

\* ------------------------------------------------------- specification
\* The first start of the process on an empty database, on day 0.
Init ==
  /\ today = 0
  /\ importDay = 0
  /\ userconfig = << UserConfig(1, 0) >>
  /\ studylog = <<>>
  /\ rewarditem = << RewardItem(1, FreezeCardName, FreezeCardCost,
                                FreezeCardDescription, TRUE) >>
  /\ resp = [op |-> "startup"]
  /\ session = [w \in Workers |-> Idle(0)]

LogStudy == \E d \in Durations, n \in Notes : log_study(d, n)
AddReward == \E n \in RewardNames, c \in RewardCosts : add_reward(n, c, "")
RedeemReward == \E id \in RewardIds : redeem_reward(id)

Next ==
  \/ Tick
  \/ create_db_and_tables
  \/ get_status
  \/ LogStudy
  \/ daily_check
  \/ get_rewards
  \/ AddReward
  \/ RedeemReward

Spec == Init /\ [][Next]_vars

\* The process started for the first time on an empty database: the first
\* step is the startup (lifespan runs before any request is served), the
\* requests and later restarts follow.
InitBoot ==
  /\ today = 0
  /\ importDay = 0
  /\ userconfig = <<>>
  /\ studylog = <<>>
  /\ rewarditem = <<>>
  /\ resp = [op |-> "none"]
  /\ session = [w \in Workers |-> Idle(0)]

NextBoot ==
  \/ resp.op = "none" /\ create_db_and_tables
  \/ resp.op # "none" /\ Next

SpecBoot == InitBoot /\ [][NextBoot]_vars

\* ------------------------------------------------ interleaved handlers
\* Each request runs in its own Session on its own worker thread: it loads
\* the configuration row into an object, works on that object and commits.
\* Nothing is locked between the load and the commit, so the steps of two
\* requests interleave.

\* variant: the UPDATE adds the handler's change to the stored value
write_back_increments(row, loaded, new) ==
  [f \in DOMAIN row |->
     IF new[f] = loaded[f] THEN row[f]
     ELSE IF f = "last_check_date" THEN new[f]
     ELSE row[f] + (new[f] - loaded[f])]

\* session.add(config); session.commit(): the UPDATE sets the columns whose
\* attribute the handler changed to the object's values and leaves the other
\* columns of the stored row as they are.
write_back(row, loaded, new) ==
  [f \in DOMAIN row |-> IF new[f] = loaded[f] THEN row[f] ELSE new[f]]

\* a worker takes a new request
can_begin(w) ==
  /\ session[w].pc \in {"idle", "done"}
  /\ session[w].served < MaxRequests

\* log_study up to the construction of new_log
log_study_read(w, duration_minutes, note) ==
  LET multiplier == calculate_multiplier(config.current_streak)
      final_earned == earned_energy(duration_minutes, config, multiplier)
      new_log == StudyLog(0, duration_minutes, note, final_earned)
  IN  /\ can_begin(w)
      /\ session' = [session EXCEPT ![w] =
                       [ pc |-> "loaded", op |-> "log_study",
                         served |-> @.served + 1,
                         cfg |-> config,
                         multiplier |-> multiplier,
                         final_earned |-> final_earned,
                         new_log |-> new_log ]]
      /\ UNCHANGED <<today, importDay, userconfig, studylog, rewarditem, resp>>

\* variant: the earned amount is added to the stored balance at commit
log_study_commit_on_row(w) ==
  LET s == session[w]
      r == [ op |-> "log_study", message |-> "Logged!",
             total_earned |-> round_half_even(s.final_earned * 10, EnergyUnit),
             bonus_multiplier |-> s.multiplier ]
  IN  /\ s.pc = "loaded" /\ s.op = "log_study"
      /\ userconfig' = [userconfig EXCEPT ![1].energy_balance = @ + s.final_earned]
      /\ studylog' = Append(studylog, [s.new_log EXCEPT !.id = Len(studylog) + 1])
      /\ resp' = r
      /\ session' = [session EXCEPT ![w].pc = "done"]
      /\ UNCHANGED <<today, importDay, rewarditem>>

\* config.energy_balance += final_earned; add; commit
log_study_commit(w) ==
  LET s == session[w]
      new_cfg == [s.cfg EXCEPT !.energy_balance = @ + s.final_earned]
      r == [ op |-> "log_study", message |-> "Logged!",
             total_earned |-> round_half_even(s.final_earned * 10, EnergyUnit),
             bonus_multiplier |-> s.multiplier ]
  IN  /\ s.pc = "loaded" /\ s.op = "log_study"
      /\ userconfig' = [userconfig EXCEPT ![1] = write_back(@, s.cfg, new_cfg)]
      /\ studylog' = Append(studylog, [s.new_log EXCEPT !.id = Len(studylog) + 1])
      /\ resp' = r
      /\ session' = [session EXCEPT ![w].pc = "done"]
      /\ UNCHANGED <<today, importDay, rewarditem>>

\* daily_check up to the early return
daily_check_read(w) ==
  LET last_check == strptime_date(config.last_check_date)
      r == [op |-> "daily_check", message |-> "Checked"]
  IN  /\ can_begin(w)
      /\ IF already_checked(last_check, today)
         THEN /\ session' = [session EXCEPT ![w] =
                               [ pc |-> "done", op |-> "daily_check",
                                 served |-> @.served + 1,
                                 cfg |-> config, resp |-> r ]]
              /\ resp' = r
         ELSE /\ session' = [session EXCEPT ![w] =
                               [ pc |-> "loaded", op |-> "daily_check",
                                 served |-> @.served + 1,
                                 cfg |-> config ]]
              /\ UNCHANGED resp
      /\ UNCHANGED <<today, importDay, userconfig, studylog, rewarditem>>

\* the select of yesterday's logs and their total
daily_check_logs(w) ==
  LET s == session[w]
      yesterday == today - 1
      yesterday_str == date_str(yesterday)
      logs == logs_dated(yesterday_str)
  IN  /\ s.pc = "loaded" /\ s.op = "daily_check"
      /\ session' = [session EXCEPT ![w] =
                       [ pc |-> "logs_read", op |-> "daily_check",
                         served |-> s.served, cfg |-> s.cfg,
                         yesterday_minutes |-> sum_minutes(logs) ]]
      /\ UNCHANGED <<today, importDay, userconfig, studylog, rewarditem, resp>>

\* variant: the goal step is applied to the stored row at commit
daily_check_commit_on_row(w) ==
  LET s == session[w]
      last_check == strptime_date(s.cfg.last_check_date)
      c1 == goal_step(config, s.yesterday_minutes)
      c2 == gap_step(c1, today - last_check)
      c3 == [c2 EXCEPT !.last_check_date = date_str(today)]
      r == [op |-> "daily_check", message |-> "Daily check done"]
  IN  /\ s.pc = "logs_read" /\ s.op = "daily_check"
      /\ userconfig' = [userconfig EXCEPT ![1] = c3]
      /\ resp' = r
      /\ session' = [session EXCEPT ![w] =
                       [ pc |-> "done", op |-> "daily_check",
                         served |-> s.served, cfg |-> s.cfg,
                         yesterday_minutes |-> s.yesterday_minutes,
                         resp |-> r ]]
      /\ UNCHANGED <<today, importDay, studylog, rewarditem>>

\* the goal, freeze, penalty and gap steps on the loaded object; commit
daily_check_commit(w) ==
  LET s == session[w]
      last_check == strptime_date(s.cfg.last_check_date)
      c1 == goal_step(s.cfg, s.yesterday_minutes)
      c2 == gap_step(c1, today - last_check)
      c3 == [c2 EXCEPT !.last_check_date = date_str(today)]
      r == [op |-> "daily_check", message |-> "Daily check done"]
  IN  /\ s.pc = "logs_read" /\ s.op = "daily_check"
      /\ userconfig' = [userconfig EXCEPT ![1] = write_back(@, s.cfg, c3)]
      /\ resp' = r
      /\ session' = [session EXCEPT ![w] =
                       [ pc |-> "done", op |-> "daily_check",
                         served |-> s.served, cfg |-> s.cfg,
                         yesterday_minutes |-> s.yesterday_minutes,
                         resp |-> r ]]
      /\ UNCHANGED <<today, importDay, studylog, rewarditem>>

\* redeem_reward up to the guard
redeem_read(w, reward_id) ==
  LET r == [op |-> "redeem_reward", reward_id |-> reward_id,
            status |-> 400, detail |-> "Error"]
  IN  /\ can_begin(w)
      /\ IF redeem_denied(config, rewarditem, reward_id)
         THEN /\ session' = [session EXCEPT ![w] =
                               [ pc |-> "done", op |-> "redeem_reward",
                                 served |-> @.served + 1,
                                 cfg |-> config, resp |-> r ]]
              /\ resp' = r
         ELSE /\ session' = [session EXCEPT ![w] =
                               [ pc |-> "loaded", op |-> "redeem_reward",
                                 served |-> @.served + 1,
                                 cfg |-> config,
                                 item |-> rewarditem[reward_id] ]]
              /\ UNCHANGED resp
      /\ UNCHANGED <<today, importDay, userconfig, studylog, rewarditem>>

\* the balance and freeze update on the loaded object; commit
redeem_commit(w) ==
  LET s == session[w]
      r == [op |-> "redeem_reward", reward_id |-> s.item.id,
            status |-> 200, message |-> "Redeemed"]
  IN  /\ s.pc = "loaded" /\ s.op = "redeem_reward"
      /\ userconfig' = [userconfig EXCEPT
                          ![1] = write_back(@, s.cfg, redeem_effect(s.cfg, s.item))]
      /\ resp' = r
      /\ session' = [session EXCEPT ![w] =
                       [ pc |-> "done", op |-> "redeem_reward",
                         served |-> s.served, cfg |-> s.cfg,
                         item |-> s.item, resp |-> r ]]
      /\ UNCHANGED <<today, importDay, studylog, rewarditem>>

\* The tables as sequential runs leave them on day 1, before that day's
\* check; the catalog holds the seeded item and one user-added item.
\*   logged:  four hours were logged on day 0
\*   fresh:   nothing was logged
\*   frozen:  the process restarted on day 1, four hours were logged and a
\*            freeze card was redeemed
ConcCatalog ==
  << RewardItem(1, FreezeCardName, FreezeCardCost, FreezeCardDescription, TRUE),
     RewardItem(2, "coffee", 10 * EnergyUnit, "", FALSE) >>

ConcLog(day) ==
  << [ id |-> 1, date |-> date_str(day), duration_minutes |-> 240,
       note |-> "note", earned_energy |-> 40 * EnergyUnit ] >>

ConcStarts ==
  { [ importDay |-> 0, studylog |-> ConcLog(0),
      config |-> [UserConfig(1, 0) EXCEPT !.energy_balance = 40 * EnergyUnit] ],
    [ importDay |-> 0, studylog |-> <<>>,
      config |-> UserConfig(1, 0) ],
    [ importDay |-> 1, studylog |-> ConcLog(1),
      config |-> [UserConfig(1, 0) EXCEPT !.energy_balance = 10 * EnergyUnit,
                                          !.streak_freezes = 1] ] }

InitConc ==
  /\ today = 1
  /\ \E st \in ConcStarts :
       /\ importDay = st.importDay
       /\ studylog = st.studylog
       /\ userconfig = << st.config >>
  /\ rewarditem = ConcCatalog
  /\ resp = [op |-> "startup"]
  /\ session = [w \in Workers |-> Idle(0)]

LogStudyRead == \E w \in Workers, d \in Durations, n \in Notes : log_study_read(w, d, n)
LogStudyCommit == \E w \in Workers : log_study_commit(w)
DailyCheckRead == \E w \in Workers : daily_check_read(w)
DailyCheckLogs == \E w \in Workers : daily_check_logs(w)
DailyCheckCommit == \E w \in Workers : daily_check_commit(w)
RedeemRead == \E w \in Workers, id \in RewardIds : redeem_read(w, id)
RedeemCommit == \E w \in Workers : redeem_commit(w)

NextConc ==
  \/ LogStudyRead
  \/ LogStudyCommit
  \/ DailyCheckRead
  \/ DailyCheckLogs
  \/ DailyCheckCommit
  \/ RedeemRead
  \/ RedeemCommit

SpecConc == InitConc /\ [][NextConc]_vars

\* The multiplier applied to stored configurations: the process starts on a
\* configuration row holding any streak up to MaxStreak and any stored
\* max_streak_bonus, and serves status and log-study requests.
InitMult ==
  /\ today = 0
  /\ importDay = 0
  /\ \E s \in 0..MaxStreak, b \in StoredBonuses :
        userconfig = << [UserConfig(1, 0) EXCEPT !.current_streak = s,
                                                 !.max_streak_bonus = b] >>
  /\ studylog = <<>>
  /\ rewarditem = << RewardItem(1, FreezeCardName, FreezeCardCost,
                                FreezeCardDescription, TRUE) >>
  /\ resp = [op |-> "startup"]
  /\ session = [w \in Workers |-> Idle(0)]

NextMult ==
  \/ get_status
  \/ LogStudy

SpecMult == InitMult /\ [][NextMult]_vars

\* =========================================================== properties
\* Quantities the properties are stated in.
LastCheck == strptime_date(config.last_check_date)
GapDays == today - LastCheck
YesterdayMinutes == sum_minutes(logs_dated(date_str(today - 1)))
GoalMinutes == config.daily_goal_hours * 60
Transition == LastCheck < today
Missed == YesterdayMinutes < GoalMinutes
LastLog == studylog[Len(studylog)]
CheckDone == resp.op = "daily_check" /\ resp.message = "Daily check done"
                /\ LastCheck = today
\* min(1 + 0.05 s, 1.5) in hundredths, piecewise
ExpectedMultiplier(s) == IF s <= 10 THEN 100 + 5 * s ELSE 150

\* C1: a daily check called while last_check_date >= today changes no
\* table (configuration, log, catalog), and every daily check leaves
\* last_check_date >= today, so a second call on the same day is such a call.
C1_DailyCheckIdempotent ==
  [][ daily_check =>
        /\ (LastCheck >= today => UNCHANGED <<userconfig, studylog, rewarditem>>)
        /\ LastCheck' >= today' ]_vars

\* a second daily check on a day on which the transition was performed
C1_Witness ==
  /\ resp.op = "daily_check" /\ resp.message = "Checked"
  /\ today > 0 /\ LastCheck = today

\* C2: redeem answers with the error exactly when the id names no item or
\* the balance is below the item's cost, then leaving every table unchanged;
\* in every other case it succeeds.
C2_RedeemDenied ==
  [][ \A id \in RewardIds :
        redeem_reward(id) =>
          LET denied == \/ id \notin DOMAIN rewarditem
                        \/ config.energy_balance < rewarditem[id].cost
          IN  /\ denied => /\ resp'.status = 400
                           /\ UNCHANGED <<userconfig, studylog, rewarditem>>
              /\ (~denied) => resp'.status = 200 ]_vars

\* balance 10, cost 30: the redemption is refused
C2_Witness ==
  /\ resp.op = "redeem_reward" /\ resp.status = 400
  /\ resp.reward_id \in DOMAIN rewarditem
  /\ config.energy_balance = 10 * EnergyUnit
  /\ rewarditem[resp.reward_id].cost = 30 * EnergyUnit

\* C3: a successful redeem takes exactly the item's cost from the balance,
\* adds one freeze exactly when the item's name is the freeze-card name
\* (system item or not) and changes nothing else.
C3_RedeemEffect ==
  [][ \A id \in RewardIds :
        (redeem_reward(id) /\ resp'.status = 200) =>
          /\ config' = [config EXCEPT
                          !.energy_balance = @ - rewarditem[id].cost,
                          !.streak_freezes =
                             @ + (IF rewarditem[id].name = FreezeCardName
                                  THEN 1 ELSE 0)]
          /\ UNCHANGED <<studylog, rewarditem>> ]_vars

\* a user-added item carrying the freeze-card name was redeemed
C3_Witness ==
  /\ resp.op = "redeem_reward" /\ resp.status = 200
  /\ rewarditem[resp.reward_id].name = FreezeCardName
  /\ ~rewarditem[resp.reward_id].is_system_item
  /\ config.streak_freezes = 1

\* C4: a daily check with last_check_date = yesterday and yesterday's
\* minutes reaching the goal adds exactly 1 to current_streak and leaves
\* energy_balance and streak_freezes as they were.
C4_GoalMetGrowsStreak ==
  [][ (daily_check /\ LastCheck = today - 1 /\ ~Missed) =>
        config' = [config EXCEPT !.current_streak = @ + 1,
                                 !.last_check_date = date_str(today)] ]_vars

\* the goal was met while a freeze was held: the freeze is still there
C4_Witness ==
  /\ CheckDone
  /\ ~Missed
  /\ config.current_streak >= 1
  /\ config.streak_freezes >= 1

\* C5: a daily check changes energy_balance exactly when it performs the
\* transition with the goal missed and no freeze held; then current_streak
\* becomes 0 and the balance drops by penalty_amount once, below zero if
\* need be.
C5_PenaltyOnlyWithoutFreeze ==
  [][ daily_check =>
        LET penalised == Transition /\ Missed /\ config.streak_freezes = 0
        IN  /\ (config'.energy_balance # config.energy_balance) <=> penalised
            /\ penalised =>
                 /\ config'.current_streak = 0
                 /\ config'.energy_balance =
                      config.energy_balance - config.penalty_amount ]_vars

\* one check after two days without any log: one penalty, balance negative
C5_Witness ==
  /\ CheckDone
  /\ today = 2
  /\ studylog = <<>>
  /\ config.energy_balance = 0 - DefaultPenalty
  /\ config.current_streak = 0

\* C6 as stated: whenever a daily check consumes a freeze, streak_freezes
\* drops by 1, the balance is unchanged and current_streak keeps its value.
C6_FreezePreservesStreak_Original ==
  [][ (daily_check /\ Transition /\ Missed /\ config.streak_freezes > 0) =>
        /\ config'.streak_freezes = config.streak_freezes - 1
        /\ config'.energy_balance = config.energy_balance
        /\ config'.current_streak = config.current_streak ]_vars

\* C6 amended: whenever a daily check consumes a freeze, streak_freezes drops
\* by 1 and the balance is unchanged; current_streak keeps its value when
\* last_check_date is yesterday and is 0 when the gap is more than one day.
C6_FreezePreservesStreak ==
  [][ (daily_check /\ Transition /\ Missed /\ config.streak_freezes > 0) =>
        /\ config'.streak_freezes = config.streak_freezes - 1
        /\ config'.energy_balance = config.energy_balance
        /\ config'.current_streak =
             (IF GapDays = 1 THEN config.current_streak ELSE 0) ]_vars

\* a freeze was consumed on a missed day and the streak survived
C6_Witness ==
  /\ CheckDone
  /\ Missed
  /\ config.current_streak >= 1
  /\ config.streak_freezes = 0

\* C7: a daily check performing the transition over a gap of more than one
\* day leaves current_streak = 0, whatever the goal step did, and the goal
\* step's freeze consumption or penalty still takes effect.
C7_GapOverride ==
  [][ (daily_check /\ Transition /\ GapDays > 1) =>
        /\ config'.current_streak = 0
        /\ (~Missed) =>
             /\ config'.streak_freezes = config.streak_freezes
             /\ config'.energy_balance = config.energy_balance
        /\ (Missed /\ config.streak_freezes > 0) =>
             /\ config'.streak_freezes = config.streak_freezes - 1
             /\ config'.energy_balance = config.energy_balance
        /\ (Missed /\ config.streak_freezes = 0) =>
             /\ config'.streak_freezes = 0
             /\ config'.energy_balance =
                  config.energy_balance - config.penalty_amount ]_vars

\* the goal was met yesterday, yet the streak is 0 after the check
C7_Witness ==
  /\ CheckDone
  /\ ~Missed
  /\ config.current_streak = 0

\* C8: log study of d minutes at streak s adds d/60 * base_reward_rate *
\* multiplier(s) to the balance, appends one row holding that amount and d,
\* and changes nothing else.
C8_LogStudyEarns ==
  [][ \A d \in Durations, n \in Notes :
        log_study(d, n) =>
          LET earned == d * config.base_reward_rate
                          * ExpectedMultiplier(config.current_streak)
          IN  /\ config' = [config EXCEPT !.energy_balance = @ + earned]
              /\ Len(studylog') = Len(studylog) + 1
              /\ SubSeq(studylog', 1, Len(studylog)) = studylog
              /\ LastLog'.earned_energy = earned
              /\ LastLog'.duration_minutes = d
              /\ UNCHANGED rewarditem ]_vars

\* four hours logged at streak 1 earned 40 * 1.05
C8_Witness ==
  /\ resp.op = "log_study"
  /\ config.current_streak = 1
  /\ LastLog.duration_minutes = 240
  /\ LastLog.earned_energy = 42 * EnergyUnit

\* C9: the multiplier is 1 + 0.05 s up to s = 10 and 1.5 above, is
\* non-decreasing and within [1.0, 1.5], and the stored max_streak_bonus
\* does not enter it.
C9_Multiplier ==
  /\ \A s \in 0..MaxStreak :
       /\ calculate_multiplier(s) = ExpectedMultiplier(s)
       /\ calculate_multiplier(s) >= 100
       /\ calculate_multiplier(s) <= 150
  /\ \A s \in 0..(MaxStreak - 1) :
       calculate_multiplier(s) <= calculate_multiplier(s + 1)
  /\ resp.op = "get_status" =>
       resp.multiplier = ExpectedMultiplier(config.current_streak)
  /\ resp.op = "log_study" =>
       resp.bonus_multiplier = ExpectedMultiplier(config.current_streak)

\* status at a streak above 10 with a stored bonus other than 1.5
C9_Witness ==
  /\ resp.op = "get_status"
  /\ config.current_streak > 10
  /\ config.max_streak_bonus = 200
  /\ resp.multiplier = 150

\* C10: a log entry created by log study is dated with the day on which it
\* was created.
C10_LogDatedCreationDay ==
  [][ \A d \in Durations, n \in Notes :
        log_study(d, n) => LastLog'.date = date_str(today) ]_vars

\* C11: current_streak and streak_freezes are never negative; a daily check
\* takes a freeze only when one is held.
C11_CountersNonNegative ==
  /\ config.current_streak >= 0
  /\ config.streak_freezes >= 0

\* a goal was missed with no freeze held: the count stays 0, the penalty is
\* charged instead
C11_Witness ==
  /\ CheckDone
  /\ Missed
  /\ today = 1
  /\ config.streak_freezes = 0
  /\ config.energy_balance = 0 - DefaultPenalty

\* C12: once the process has started there is exactly one UserConfig row
\* and exactly one seeded system item, also after restarts; the first startup
\* creates the row with its defaults, and no later step adds or removes one.
C12_SingleConfig ==
  /\ [](resp.op # "none" =>
          /\ Len(userconfig) = 1
          /\ Cardinality({i \in DOMAIN rewarditem :
                            rewarditem[i].is_system_item}) = 1)
  /\ [][ /\ userconfig # <<>> => Len(userconfig') = Len(userconfig)
         /\ userconfig = <<>> =>
              /\ userconfig' = << UserConfig(1, today) >>
              /\ rewarditem' = << RewardItem(1, FreezeCardName, FreezeCardCost,
                                             FreezeCardDescription, TRUE) >>
         /\ (create_db_and_tables /\ userconfig # <<>>) =>
              UNCHANGED <<userconfig, studylog, rewarditem>> ]_vars

\* a restart on a later day over a configuration that is in use and a
\* catalog holding a user-added item
C12_Witness ==
  /\ resp.op = "startup"
  /\ importDay = 2
  /\ Len(userconfig) = 1
  /\ config.current_streak = 1
  /\ Len(rewarditem) = 2

\* C14: the study log only grows, by one row per log study and by nothing
\* else, and no step changes a row that is already there.
C14_LogAppendOnly ==
  [][ /\ Len(studylog') >= Len(studylog)
      /\ SubSeq(studylog', 1, Len(studylog)) = studylog
      /\ studylog' # studylog =>
           /\ Len(studylog') = Len(studylog) + 1
           /\ \E d \in Durations, n \in Notes : log_study(d, n) ]_vars

\* a row earned at streak 0 keeps its amount after the streak has grown and
\* a second row was logged at the higher multiplier
C14_Witness ==
  /\ Len(studylog) = 2
  /\ studylog[1].earned_energy = 240 * DefaultRewardRate * 100
  /\ studylog[2].earned_energy = 240 * DefaultRewardRate * 105
  /\ config.current_streak = 1

\* the minutes of the rows dated exactly day d, summed row by row
RECURSIVE MinutesOn(_, _)
MinutesOn(d, k) ==
  IF k = 0 THEN 0
  ELSE MinutesOn(d, k - 1)
         + (IF studylog[k].date.iso = d THEN studylog[k].duration_minutes ELSE 0)

\* C15: a daily check that performs the transition takes the goal-met branch
\* (no freeze taken, no penalty) exactly when the rows dated today - 1 total
\* the goal; rows of any other date do not enter the decision.
C15_OnlyYesterdayCounts ==
  [][ (daily_check /\ Transition) =>
        ( (/\ config'.streak_freezes = config.streak_freezes
           /\ config'.energy_balance = config.energy_balance)
          <=> MinutesOn(today - 1, Len(studylog)) >= GoalMinutes ) ]_vars

\* four hours are logged under today's date, none under yesterday's: the
\* check charges the penalty
C15_Witness ==
  /\ CheckDone
  /\ today = 1
  /\ Len(studylog) = 1
  /\ studylog[1].date = date_str(1)
  /\ studylog[1].duration_minutes = 240
  /\ config.energy_balance = 40 * EnergyUnit - DefaultPenalty

\* C16: last_check_date never moves back; a daily check that performs the
\* transition sets it to today, later than before; every other step leaves it
\* alone; after any daily check it is today or later.
C16_LastCheckMonotone ==
  [][ /\ LastCheck' >= LastCheck
      /\ (daily_check /\ Transition) =>
            (LastCheck' = today /\ LastCheck' > LastCheck)
      /\ ~(daily_check /\ Transition) => LastCheck' = LastCheck
      /\ daily_check => LastCheck' >= today' ]_vars

\* a check on day 3 after a check on an earlier day
C16_Witness ==
  /\ CheckDone
  /\ today = 3
  /\ config.current_streak = 1

\* C17: a successful redeem leaves energy_balance >= 0, and a step that takes
\* energy_balance from >= 0 to < 0 is the daily-check penalty or a log study
\* of a negative duration.
C17_OnlyPenaltyGoesNegative ==
  [][ /\ \A id \in RewardIds :
           (redeem_reward(id) /\ resp'.status = 200) => config'.energy_balance >= 0
      /\ (config.energy_balance >= 0 /\ config'.energy_balance < 0) =>
           \/ /\ daily_check /\ Transition /\ Missed
              /\ config.streak_freezes = 0
              /\ config'.energy_balance =
                   config.energy_balance - config.penalty_amount
           \/ \E d \in Durations, n \in Notes : d < 0 /\ log_study(d, n) ]_vars

\* a redemption that spends the whole balance
C17_Witness ==
  /\ resp.op = "redeem_reward" /\ resp.status = 200
  /\ config.energy_balance = 0
  /\ config.streak_freezes >= 1

\* the requests of workers v and w, when both read the same configuration
SameRead(v, w) == v # w /\ session[v].cfg = session[w].cfg
Done(w, op) == session[w].pc = "done" /\ session[w].op = op
Other(w) == Workers \ {w}

\* C13: the write-back of a log study stores the balance that request read
\* plus its own earned amount, whatever was written in between, and appends
\* its row; so it adds to the stored balance exactly when no other write-back
\* came between its read and its commit, and otherwise that write is lost.
C13_LogStudyWriteBack ==
  [][ \A w \in Workers :
        log_study_commit(w) =>
          LET s == session[w]
              earned == s.new_log.duration_minutes * s.cfg.base_reward_rate
                          * ExpectedMultiplier(s.cfg.current_streak)
          IN  /\ config'.energy_balance = s.cfg.energy_balance + earned
              /\ (config'.energy_balance = config.energy_balance + earned)
                   <=> (config.energy_balance = s.cfg.energy_balance)
              /\ Len(studylog') = Len(studylog) + 1
              /\ SubSeq(studylog', 1, Len(studylog)) = studylog
              /\ LastLog'.earned_energy = earned ]_vars

\* both requests read a balance of 0, both rows are there, and the balance
\* holds the second row's amount only
C13_Witness ==
  /\ Done(1, "log_study") /\ Done(2, "log_study")
  /\ SameRead(1, 2)
  /\ session[1].cfg.energy_balance = 0
  /\ Len(studylog) = 2
  /\ studylog[1].earned_energy # 0
  /\ config.energy_balance = studylog[2].earned_energy

C19_GuardUnderInterleaving_Original ==
  (\A w \in Workers : session[w].pc = "loaded" /\ session[w].op = "redeem_reward")
    => session[1].item.cost + session[2].item.cost <= config.energy_balance

\* C19 amended: a redeem that passed the guard writes the balance it read
\* minus its cost, which is not negative; the guard is evaluated on each
\* request's own read, so two redeems in flight can both succeed although
\* their total cost exceeds the balance.
C19_RedeemWriteBack ==
  [][ \A w \in Workers :
        redeem_commit(w) =>
          /\ config'.energy_balance =
               session[w].cfg.energy_balance - session[w].item.cost
          /\ config'.energy_balance >= 0 ]_vars

\* two redeems of 30 both succeeded on a balance of 40, which is now 10
C19_Witness ==
  /\ Done(1, "redeem_reward") /\ Done(2, "redeem_reward")
  /\ session[1].resp.status = 200 /\ session[2].resp.status = 200
  /\ SameRead(1, 2)
  /\ session[1].item.cost + session[2].item.cost > session[1].cfg.energy_balance
  /\ config.energy_balance = session[1].cfg.energy_balance - session[2].item.cost

====
